---- MODULE Spec2Model ----
(***************************************************************************)
(* Model of update_stream_service.py: a one-shot patch script that reads   *)
(* server/services/streamService.ts, removes two imports, inserts two      *)
(* lines if their markers are absent, replaces two brace-delimited blocks  *)
(* located by signature, and writes the file back.                         *)
(*                                                                         *)
(* Text is a sequence of tokens.  A token is a piece of text that the      *)
(* script never looks inside, except "{" and "}", which are the only       *)
(* tokens containing a brace, and "\n".  Every string literal of the       *)
(* script is the sequence of its pieces, so substring search, str.replace  *)
(* and the brace scan work on sequences as they work on characters.        *)
(* Offsets are 0-based as in the script.                                   *)
(***************************************************************************)
EXTENDS Integers, Sequences, FiniteSets, TLC

VARIABLES file, text, pc, start_index, end_index, brace_depth, exit_msg,
          run, trace, prev, fileAtStart, writes, outcomes

vars == <<file, text, pc, start_index, end_index, brace_depth, exit_msg,
          run, trace, prev, fileAtStart, writes, outcomes>>

(* ----------------------------- bounds --------------------------------- *)
\* number of fragments an initial file is made of
MaxFrags == 3
\* number of times the script is run on the same file
MaxRuns == 2

(* ------------------------ Python primitives --------------------------- *)
\* Python's None (end_index = None) and the -1 of str.find
None == -1

\* s[i]
At(s, i) == s[i + 1]

\* s[a:b]
Slice(s, a, b) == SubSeq(s, a + 1, b)

\* s[a:]
SliceFrom(s, a) == SubSeq(s, a + 1, Len(s))

RECURSIVE FindFrom(_, _, _)
FindFrom(s, sub, i) ==
    IF i + Len(sub) > Len(s) THEN -1
    ELSE IF Slice(s, i, i + Len(sub)) = sub THEN i
    ELSE FindFrom(s, sub, i + 1)

\* s.find(sub): lowest offset of sub in s, or -1
Find(s, sub) == FindFrom(s, sub, 0)

\* sub in s
In(sub, s) == Find(s, sub) # -1

RECURSIVE ReplaceFrom(_, _, _, _)
ReplaceFrom(s, old, new, i) ==
    IF i + Len(old) > Len(s) THEN SliceFrom(s, i)
    ELSE IF Slice(s, i, i + Len(old)) = old
         THEN new \o ReplaceFrom(s, old, new, i + Len(old))
    ELSE <<At(s, i)>> \o ReplaceFrom(s, old, new, i + 1)

\* mutant: only the first occurrence is replaced (count = 1)
ReplaceFirstOnly(s, old, new) ==
    LET i == Find(s, old) IN
        IF i = -1 THEN s
        ELSE Slice(s, 0, i) \o new \o SliceFrom(s, i + Len(old))

\* s.replace(old, new): every non-overlapping occurrence, left to right
Replace(s, old, new) == ReplaceFrom(s, old, new, 0)

(* --------------------------- the literals ----------------------------- *)
importFs == <<"import * as fs from 'fs';", "\n">>

importPath == <<"import * as path from 'path';", "\n">>

declMarker == <<"private activeScreenshotTasks">>

\* the mcpClients declaration line; its trailing comment is one opaque piece
target == <<"  private mcpClients: Map<string, PlaywrightMcpClient>; // MCP", "\n">>

declLine == <<"  ">> \o declMarker \o <<": Set<string>;", "\n">>

initMarker == <<"this.activeScreenshotTasks = new Set();">>

initAnchor == <<"    this.mcpClients = new Map();", "\n">>

initLine == <<"    ">> \o initMarker \o <<"\n">>

start_signature ==
    <<"  startStreamWithMcp(runId: string, mcpClient: PlaywrightMcpClient): void ", "{">>

\* the new body, its brace structure kept: nested blocks, the closing brace
\* of the method, then a newline
new_start ==
    start_signature \o
    <<"if (this.timers.has(runId)) ", "{", "return;", "}",
      "const timer = setInterval(async () => ", "{",
      "try ", "{", "}", "}",
      "this.timers.set(runId, timer);", "}", "\n">>

handle_signature ==
    <<"  private async handleStreamFailure(runId: string, rawError: ", "any",
      "): Promise<void> ", "{">>

new_handle ==
    <<"  private async handleStreamFailure(runId: string, rawError: ", "unknown",
      "): Promise<void> ", "{",
      "if (cachedFrame) ", "{", "try ", "{", "}", "}",
      "this.pauseStreamTemporarily(runId, 10000);", "}", "\n">>

startNotFound == "startStreamWithMcp not found"

startNoEnd == "Unable to locate end of startStreamWithMcp"

handleNotFound == "handleStreamFailure not found"

handleNoEnd == "Unable to locate end of handleStreamFailure"

(* --------------------------- the brace scan --------------------------- *)
RECURSIVE ScanFrom(_, _, _)
ScanFrom(s, i, d) ==
    IF i >= Len(s) THEN [end_index |-> None, brace_depth |-> d]
    ELSE IF At(s, i) = "{" THEN ScanFrom(s, i + 1, d + 1)
    ELSE IF At(s, i) = "}"
         THEN IF d - 1 = 0 THEN [end_index |-> i, brace_depth |-> 0]
              ELSE ScanFrom(s, i + 1, d - 1)
    ELSE ScanFrom(s, i + 1, d)

RECURSIVE FirstCloseFrom(_, _)
FirstCloseFrom(s, i) ==
    IF i >= Len(s) THEN [end_index |-> None, brace_depth |-> 0]
    ELSE IF At(s, i) = "}" THEN [end_index |-> i, brace_depth |-> 0]
    ELSE FirstCloseFrom(s, i + 1)

\* mutant: nested open braces are not counted, the scan ends at the first "}"
ScanFirstClose(s, start) == FirstCloseFrom(s, start)

\* brace_depth = 0; end_index = None; for i in range(start, len(text)): ...
Scan(s, start) == ScanFrom(s, start, 0)

\* mutant: the tail starts at end_index, the old close brace is kept
SpliceKeepClose(s, start, end, new) == Slice(s, 0, start) \o new \o SliceFrom(s, end)

\* text[:start_index] + new + text[end_index + 1:]
Splice(s, start, end, new) == Slice(s, 0, start) \o new \o SliceFrom(s, end + 1)

(* ------------------------- initial file contents ---------------------- *)
Fragments ==
    { importFs, importPath, target, initAnchor, initLine,
      <<"  ">> \o declMarker \o <<" = new Set<string>();", "\n">>,
      start_signature, start_signature \o <<"}">>,
      start_signature \o <<"if ", "{", "for ", "{", "}", "}", "}">>,
      handle_signature, handle_signature \o <<"}">>,
      <<"}">>, <<"\n">> }

RECURSIVE Concat(_)
Concat(ss) == IF ss = <<>> THEN <<>> ELSE Head(ss) \o Concat(Tail(ss))

InitialFiles ==
    { Concat(ss) : ss \in UNION { [1..n -> Fragments] : n \in 0..MaxFrags } }

(* ------------------------------ the run ------------------------------- *)
Init ==
    /\ file \in InitialFiles
    /\ text = <<>>
    /\ pc = "read"
    /\ start_index = None
    /\ end_index = None
    /\ brace_depth = 0
    /\ exit_msg = ""
    /\ run = 1
    /\ trace = <<>>
    /\ prev = <<>>
    /\ fileAtStart = file
    /\ writes = 0
    /\ outcomes = <<>>

\* a step that only rewrites the buffer
Step(from, to, newText) ==
    /\ pc = from
    /\ pc' = to
    /\ prev' = text
    /\ text' = newText
    /\ trace' = Append(trace, from)
    /\ UNCHANGED <<file, start_index, end_index, brace_depth, exit_msg, run,
                   fileAtStart, writes, outcomes>>

ReadText == Step("read", "rm_fs", file)

RemoveFsImport == Step("rm_fs", "rm_path", Replace(text, importFs, <<>>))

RemovePathImport == Step("rm_path", "ensure_decl", Replace(text, importPath, <<>>))

\* mutant: the guard is missing, the line is inserted on every run
EnsureDeclUnguarded ==
    Step("ensure_decl", "ensure_init", Replace(text, target, target \o declLine))

EnsureDecl ==
    Step("ensure_decl", "ensure_init",
         IF ~In(declMarker, text)
         THEN Replace(text, target, target \o declLine)
         ELSE text)

EnsureInit ==
    Step("ensure_init", "find_start",
         IF ~In(initMarker, text)
         THEN Replace(text, initAnchor, initAnchor \o initLine)
         ELSE text)

\* mutant: the -1 test is missing, the run goes on to the scan
FindStepNoAbort(from, to, sig, msg, s) ==
    /\ pc = from
    /\ start_index' = Find(s, sig)
    /\ pc' = to
    /\ prev' = text
    /\ trace' = Append(trace, from)
    /\ UNCHANGED <<file, text, end_index, brace_depth, exit_msg, run,
                   fileAtStart, writes, outcomes>>

\* start_index = text.find(signature); raise SystemExit(msg) when it is -1
FindStep(from, to, sig, msg, s) ==
    /\ pc = from
    /\ start_index' = Find(s, sig)
    /\ IF start_index' = -1
       THEN pc' = "aborted" /\ exit_msg' = msg
       ELSE pc' = to /\ exit_msg' = exit_msg
    /\ prev' = text
    /\ trace' = Append(trace, from)
    /\ UNCHANGED <<file, text, end_index, brace_depth, run, fileAtStart,
                   writes, outcomes>>

\* mutant: a scan that runs off the end takes the last offset as the end
ScanStepToEof(from, to, msg) ==
    /\ pc = from
    /\ LET r == Scan(text, start_index) IN
         /\ end_index' = IF r.end_index = None THEN Len(text) - 1 ELSE r.end_index
         /\ brace_depth' = r.brace_depth
    /\ pc' = to
    /\ prev' = text
    /\ trace' = Append(trace, from)
    /\ UNCHANGED <<file, text, start_index, exit_msg, run, fileAtStart,
                   writes, outcomes>>

\* the for loop over range(start_index, len(text)); raise SystemExit(msg)
\* when end_index is still None
ScanStep(from, to, msg) ==
    /\ pc = from
    /\ LET r == Scan(text, start_index) IN
         /\ end_index' = r.end_index
         /\ brace_depth' = r.brace_depth
         /\ IF r.end_index = None
            THEN pc' = "aborted" /\ exit_msg' = msg
            ELSE pc' = to /\ exit_msg' = exit_msg
    /\ prev' = text
    /\ trace' = Append(trace, from)
    /\ UNCHANGED <<file, text, start_index, run, fileAtStart, writes, outcomes>>

FindStart == FindStep("find_start", "scan_start", start_signature, startNotFound, text)

ScanStart == ScanStep("scan_start", "splice_start", startNoEnd)

\* mutant: the buffer is written back after each block edit
SpliceStartAndWrite ==
    /\ pc = "splice_start"
    /\ pc' = "find_handle"
    /\ prev' = text
    /\ text' = Splice(text, start_index, end_index, new_start)
    /\ file' = text'
    /\ writes' = writes + 1
    /\ trace' = Append(trace, "splice_start")
    /\ UNCHANGED <<start_index, end_index, brace_depth, exit_msg, run,
                   fileAtStart, outcomes>>

SpliceStart ==
    Step("splice_start", "find_handle",
         Splice(text, start_index, end_index, new_start))

\* mutant: the second signature is searched in the text as it was read
FindHandleInOriginal ==
    FindStep("find_handle", "scan_handle", handle_signature, handleNotFound, fileAtStart)

FindHandle == FindStep("find_handle", "scan_handle", handle_signature, handleNotFound, text)

ScanHandle == ScanStep("scan_handle", "splice_handle", handleNoEnd)

SpliceHandle ==
    Step("splice_handle", "write",
         Splice(text, start_index, end_index, new_handle))

WriteText ==
    /\ pc = "write"
    /\ file' = text
    /\ writes' = writes + 1
    /\ pc' = "done"
    /\ prev' = text
    /\ trace' = Append(trace, "write")
    /\ UNCHANGED <<text, start_index, end_index, brace_depth, exit_msg, run,
                   fileAtStart, outcomes>>

\* the script is started again on the file the previous run left
RunAgain ==
    /\ pc \in {"done", "aborted"}
    /\ run < MaxRuns
    /\ run' = run + 1
    /\ outcomes' = Append(outcomes, pc)
    /\ pc' = "read"
    /\ text' = <<>>
    /\ prev' = <<>>
    /\ start_index' = None
    /\ end_index' = None
    /\ brace_depth' = 0
    /\ exit_msg' = ""
    /\ trace' = <<>>
    /\ fileAtStart' = file
    /\ writes' = 0
    /\ UNCHANGED file

Next ==
    \/ ReadText
    \/ RemoveFsImport
    \/ RemovePathImport
    \/ EnsureDecl
    \/ EnsureInit
    \/ FindStart
    \/ ScanStart
    \/ SpliceStart
    \/ FindHandle
    \/ ScanHandle
    \/ SpliceHandle
    \/ WriteText
    \/ RunAgain

Spec == Init /\ [][Next]_vars

(* ------------------- what the properties speak of --------------------- *)
\* sub occurs in s at offset i
Occurs(s, sub, i) ==
    /\ i \in 0..(Len(s) - Len(sub))
    /\ \A k \in 1..Len(sub) : s[i + k] = sub[k]

Occurrences(s, sub) == { i \in 0..Len(s) : Occurs(s, sub, i) }

HasOcc(s, sub) == Occurrences(s, sub) # {}

\* offset of the first occurrence, -1 when there is none
FirstOcc(s, sub) ==
    IF HasOcc(s, sub)
    THEN CHOOSE i \in Occurrences(s, sub) : \A j \in Occurrences(s, sub) : i <= j
    ELSE -1

\* number of tokens c at the offsets a..b of s
CountOf(s, c, a, b) == Cardinality({ k \in a..b : At(s, k) = c })

\* open braces minus close braces over the offsets a..b
Balance(s, a, b) == CountOf(s, "{", a, b) - CountOf(s, "}", a, b)

\* offsets at or after start where the running count is back to zero after
\* having been at least one
Closes(s, start) ==
    { j \in start..(Len(s) - 1) :
        /\ Balance(s, start, j) = 0
        /\ CountOf(s, "{", start, j) >= 1 }

\* the close brace that matches the open brace of the signature line
MatchClose(s, start) ==
    CHOOSE j \in Closes(s, start) : \A k \in Closes(s, start) : j <= k

\* a is b with the offsets start..end replaced by R, all else kept in order
Framed(b, a, start, end, R) ==
    /\ Len(a) = Len(b) - (end - start + 1) + Len(R)
    /\ \A i \in 0..(start - 1) : At(a, i) = At(b, i)
    /\ \A k \in 0..(Len(R) - 1) : At(a, start + k) = At(R, k)
    /\ \A j \in (end + 1)..(Len(b) - 1) :
          At(a, j - (end + 1) + start + Len(R)) = At(b, j)

\* a is b with line put after every occurrence of anchor
InsertedAfterEvery(b, a, anchor, line) ==
    /\ Len(a) = Len(b) + Cardinality(Occurrences(b, anchor)) * Len(line)
    /\ Cardinality(Occurrences(a, anchor)) = Cardinality(Occurrences(b, anchor))
    /\ \A i \in Occurrences(a, anchor) : Occurs(a, line, i + Len(anchor))
    /\ \A i \in Occurrences(b, anchor) :
          LET n == Cardinality({ j \in Occurrences(b, anchor) : j < i }) IN
              Occurs(a, anchor \o line, i + n * Len(line))

IsPrefix(t, o) == Len(t) <= Len(o) /\ SubSeq(o, 1, Len(t)) = t

StepOrder ==
    <<"read", "rm_fs", "rm_path", "ensure_decl", "ensure_init",
      "find_start", "scan_start", "splice_start",
      "find_handle", "scan_handle", "splice_handle", "write">>

InTrace(step) == \E k \in 1..Len(trace) : trace[k] = step

(* ------------------------------ properties ---------------------------- *)
\* C1: the file is written at most once per run and only after both block
\* replacements; until the write the file is what it was before the run, and
\* a run that aborts has written nothing and leaves the file as it was, also
\* when the first block was already replaced in the buffer.
C1_AllOrNothing ==
    /\ writes <= 1
    /\ writes = 1 => pc = "done" /\ InTrace("splice_start") /\ InTrace("splice_handle")
    /\ pc # "done" => writes = 0 /\ file = fileAtStart
    /\ pc = "aborted" => writes = 0 /\ file = fileAtStart

C1_Witness ==
    /\ pc = "aborted"
    /\ exit_msg \in {handleNotFound, handleNoEnd}
    /\ InTrace("splice_start")
    /\ text # fileAtStart
    /\ file = fileAtStart

\* C2: when a run has succeeded, a second successful run on its result
\* leaves the file as the first run wrote it.
C2_Idempotent ==
    (run >= 2 /\ outcomes[run - 1] = "done" /\ pc = "done") => file = fileAtStart

\* C3: a located span starts at the first occurrence of the signature and
\* ends at the close brace matching the open brace of the signature line.
C3_LocatorResult ==
    /\ pc = "splice_start" =>
         /\ start_index = FirstOcc(text, start_signature)
         /\ Closes(text, start_index) # {}
         /\ end_index = MatchClose(text, start_index)
    /\ pc = "splice_handle" =>
         /\ start_index = FirstOcc(text, handle_signature)
         /\ Closes(text, start_index) # {}
         /\ end_index = MatchClose(text, start_index)

\* a span located over a block nested three deep
C3_Witness ==
    /\ pc = "splice_start"
    /\ \E j \in start_index..end_index : Balance(text, start_index, j) >= 3
    /\ end_index < Len(text) - 1

\* C4: after a block edit the buffer is the old buffer with the span
\* replaced by the replacement: what was before start and after end is kept
\* in order and the replacement stands verbatim between them.
C4_SpliceFrame ==
    /\ pc = "find_handle" => Framed(prev, text, start_index, end_index, new_start)
    /\ pc = "write" => Framed(prev, text, start_index, end_index, new_handle)

C4_Witness ==
    /\ pc = "write"
    /\ start_index > 0
    /\ end_index + 1 < Len(prev)

\* C5: a block edit whose signature is not in the buffer ends the run with
\* the not-found message of its construct; the scan is not started, the
\* buffer and the file are not touched and nothing follows in that run.
C5_MissingSignature ==
    [][ /\ (pc = "find_start" /\ ~HasOcc(text, start_signature)) =>
              /\ pc' = "aborted" /\ exit_msg' = startNotFound
              /\ text' = text /\ file' = file
              /\ end_index' = end_index /\ brace_depth' = brace_depth
        /\ (pc = "find_handle" /\ ~HasOcc(text, handle_signature)) =>
              /\ pc' = "aborted" /\ exit_msg' = handleNotFound
              /\ text' = text /\ file' = file
              /\ end_index' = end_index /\ brace_depth' = brace_depth
        /\ (pc = "aborted" /\ exit_msg \in {startNotFound, handleNotFound}) =>
              pc' = "read" /\ file' = file
      ]_vars

C5_Witness ==
    /\ pc = "aborted"
    /\ exit_msg = handleNotFound
    /\ ~HasOcc(text, handle_signature)
    /\ ~InTrace("scan_handle")

\* C6: a block edit whose signature is present but whose brace count never
\* returns to zero ends the run with the end-not-located message; there is
\* no span, no splice, and nothing follows in that run.
C6_UnbalancedBlock ==
    [][ /\ (pc = "scan_start" /\ Closes(text, FirstOcc(text, start_signature)) = {}) =>
              /\ pc' = "aborted" /\ exit_msg' = startNoEnd
              /\ end_index' = None
              /\ text' = text /\ file' = file
        /\ (pc = "scan_handle" /\ Closes(text, FirstOcc(text, handle_signature)) = {}) =>
              /\ pc' = "aborted" /\ exit_msg' = handleNoEnd
              /\ end_index' = None
              /\ text' = text /\ file' = file
        /\ (pc = "aborted" /\ exit_msg \in {startNoEnd, handleNoEnd}) =>
              pc' = "read" /\ file' = file
      ]_vars

C6_Witness ==
    /\ pc = "aborted"
    /\ exit_msg = startNoEnd
    /\ HasOcc(text, start_signature)
    /\ end_index = None

\* C7: an insert-if-absent edit whose marker is already in the buffer
\* leaves the buffer as it is; neither guard aborts the run or touches the
\* file.
C7_GuardSkips ==
    [][ /\ (pc = "ensure_decl" /\ HasOcc(text, declMarker)) =>
              text' = text /\ pc' = "ensure_init"
        /\ (pc = "ensure_init" /\ HasOcc(text, initMarker)) =>
              text' = text /\ pc' = "find_start"
        /\ pc \in {"ensure_decl", "ensure_init"} =>
              pc' # "aborted" /\ exit_msg' = exit_msg /\ file' = file
      ]_vars

\* the declaration insert was skipped although its anchor line is there
C7_Witness ==
    /\ pc = "ensure_init"
    /\ HasOcc(text, declMarker)
    /\ HasOcc(text, target)
    /\ text = prev

\* C8: after a block edit, locating again with the same signature succeeds
\* and the located span is exactly the replacement.
C8_RoundTrip ==
    /\ pc = "find_handle" =>
         LET s == Find(text, start_signature) IN
             /\ s # -1
             /\ Scan(text, s).end_index # None
             /\ Slice(text, s, Scan(text, s).end_index + 1) = new_start
    /\ pc = "write" =>
         LET s == Find(text, handle_signature) IN
             /\ s # -1
             /\ Scan(text, s).end_index # None
             /\ Slice(text, s, Scan(text, s).end_index + 1) = new_handle

\* C9: the steps of a run come in the one fixed order, and the search and
\* the span of the second block are offsets into the buffer that holds the
\* first replacement.
C9_Sequencing ==
    /\ IsPrefix(trace, StepOrder)
    /\ pc \in {"scan_handle", "splice_handle"} =>
         /\ HasOcc(text, new_start)
         /\ start_index = FirstOcc(text, handle_signature)
    /\ pc = "splice_handle" => end_index = MatchClose(text, start_index)

\* the second signature stands at another offset than in the text as read
C9_Witness ==
    /\ pc = "splice_handle"
    /\ HasOcc(fileAtStart, handle_signature)
    /\ FirstOcc(text, handle_signature) # FirstOcc(fileAtStart, handle_signature)

====
